---- MODULE Spec2Model ----
(***************************************************************************)
(* The recording session engine of BOLO (src/components/Console.tsx, the   *)
(* hands-free version, lines 1-327) with the part of App that receives the *)
(* emitted records (src/unnamed/part_000).                                 *)
(*                                                                         *)
(* One Console instance is modelled from its mount to after its unmount.   *)
(* React state (isRecording, isProcessing, errorMsg) holds the value last  *)
(* handed to its setter.  Every event-loop task is one action: a button    *)
(* click, the completion of getUserMedia, an animation frame, the          *)
(* recorder's stop event (dataavailable then stop, up to the await of the  *)
(* service call), the completion of the service call, the restart timer,   *)
(* and the unmount.                                                        *)
(***************************************************************************)
EXTENDS Integers, Sequences, FiniteSets, TLC

\* Console.tsx:12-14
SILENCE_THRESHOLD_MS == 4000
SPEECH_THRESHOLD_VOLUME == 8
INITIAL_SILENCE_TIMEOUT_MS == 10000
\* part_001:45, the hands-free workflow as Settings describes it: "5 seconds of silence"
DESCRIBED_SILENCE_MS == 5000

\* Bounds of the model
ClockStep == 4000
MaxNow == 12000
MaxClicks == 3
MaxCopies == 2
LoopStep == 500
CallTime == 1

\* Mean magnitudes an animation frame can read: silence, the threshold itself, speech
AvgVols == {0, SPEECH_THRESHOLD_VOLUME, SPEECH_THRESHOLD_VOLUME + 1}
\* Sizes of the data the recorder hands to ondataavailable when it stops
DataSizes == {0, 1}
\* Views the user can leave the console for (part_000:246-264)
LeaveViews == {"HISTORY"}
\* Languages the settings view offers (types.ts:8-13), two of the four
Languages == {"Auto-Detect", "Hindi"}

VARIABLES
    settings,                \* App: settings (changed in the settings view only)
    capSettings,             \* props.settings as the closures of this Console hold it
    startSettings,           \* history: App's settings when the encoder was last started
    mounted,                 \* this Console instance is mounted
    currentView,             \* App: currentView
    history,                 \* App: history, newest first
    activeRecord,            \* App: activeRecord
    isRecording,             \* useState
    isProcessing,            \* useState
    errorMsg,                \* useState
    streamRef,               \* "null" | "active" | "stopped"
    audioContextRef,         \* "null" | "running" | "closed"
    analyserRef,             \* TRUE when set
    mediaRecorderRef,        \* "null", or the state of the recorder: "inactive" | "recording"
    manualStopRef,
    lastSpeechTimestampRef,
    hasSpokenSinceStartRef,
    startTimeRef,
    chunksRef,               \* total size of the chunks held
    animationFrameRef,       \* TRUE once a frame id was stored
    capIsRecording,          \* isRecording as captured by the closures now running
    loops,                   \* requestAnimationFrame chains that are scheduled
    pendingAcq,              \* getUserMedia calls not yet settled
    stopEvents,              \* recorder stop events queued, oldest first: the segments
                             \* whose stop was requested and whose handler has not run
    inflight,                \* processAudio calls not yet settled: the segment of each
    timers,                  \* restart timeouts pending, oldest first: for each, what
                             \* had ended the segment whose handler set it
    now,                     \* Date.now()
    clicks,                  \* history: clicks on the record button so far
    lastReturn,              \* history: the outcome of the service call that settled in
                             \* the step just taken, NoOutcome after any other step
    lastEnded,               \* history: the segment whose stop handler ran to its end
                             \* in the step just taken, NoSegment after any other step
    rafLive,                 \* the frame whose id animationFrameRef holds is scheduled
    leakedStreams,           \* history: acquired streams with live tracks that no ref
                             \* holds any more
    callsAtTeardown,         \* history: processAudio calls that were pending when
                             \* shutdownAudio ran and have not settled yet
    lastEvent,               \* history: "restart" after a step of the restart timeout,
                             \* "acquireFailed" after a rejected getUserMedia, else "none"
    tierOutcomes,            \* the browser: what each clipboard tier does when tried
    clipboard,               \* the browser: the text on the system clipboard
    documentBody,            \* the browser: helper elements attached to document.body
    copyText,                \* the argument of the last secureCopy call
    copyAttempted,           \* history: the tiers the last secureCopy call tried, in order
    copyThrew,               \* the last secureCopy call ended by an exception
    copyResult,              \* what the last secureCopy call returned, "none" before
    copyCalls,               \* history: secureCopy calls so far
    firstCopy,               \* history: the text, the result, the clipboard and the
                             \* document body at the end of the first secureCopy call
    copyError,               \* App: copyError
    pendingCopies,           \* secureCopy promises whose then-callback has not run,
                             \* oldest first: the caller, its record and the result
    soundOutcome,            \* the browser: what playing the confirmation sound does
    lastSound,               \* history: what the last playSuccessSound call did
    thenThrew,               \* history: an exception left a then-callback of secureCopy
    failedRecord             \* history: the record whose automatic copy failed and whose
                             \* failure no successful copy has cleared yet

vars == <<settings, capSettings, startSettings, mounted, currentView,
          history, activeRecord, isRecording,
          isProcessing, errorMsg, streamRef, audioContextRef, analyserRef,
          mediaRecorderRef, manualStopRef, lastSpeechTimestampRef,
          hasSpokenSinceStartRef, startTimeRef, chunksRef, animationFrameRef,
          capIsRecording, loops, pendingAcq, stopEvents, inflight, timers, now,
          clicks, lastReturn, lastEnded, rafLive, leakedStreams, callsAtTeardown,
          lastEvent, tierOutcomes, clipboard, documentBody, copyText, copyAttempted,
          copyThrew, copyResult, copyCalls, firstCopy, copyError, pendingCopies,
          soundOutcome, lastSound, thenThrew, failedRecord>>

appVars == <<currentView, history, activeRecord>>

copyVars == <<tierOutcomes, clipboard, documentBody, copyText, copyAttempted, copyThrew,
              copyResult, copyCalls, firstCopy>>

deliveryVars == <<copyError, pendingCopies, soundOutcome, lastSound, thenThrew,
                  failedRecord>>

----------------------------------------------------------------------------
(* Texts and String.prototype.trim *)

WhiteSpace == {" ", "\t", "\n"}

RECURSIVE TrimStart(_)
TrimStart(s) ==
    IF s = <<>> THEN s
    ELSE IF Head(s) \in WhiteSpace THEN TrimStart(Tail(s)) ELSE s

RECURSIVE TrimEnd(_)
TrimEnd(s) ==
    IF s = <<>> THEN s
    ELSE IF s[Len(s)] \in WhiteSpace THEN TrimEnd(SubSeq(s, 1, Len(s) - 1)) ELSE s

Trim(s) == TrimEnd(TrimStart(s))

SILENCE == <<"S", "I", "L", "E", "N", "C", "E">>
Hello == <<"H", "i", " ", "y", "o", "u">>

Texts == { <<>>, <<" ", "\n">>, SILENCE, <<" ">> \o SILENCE \o <<"\t">>,
           Hello, <<" ", " ">> \o Hello \o <<" ">> }

\* BoloResponse, boloService.ts:25-29
Responses == [text : Texts, detectedLanguage : {"English"}, englishTranslation : {Hello}]

\* processAudio resolves with a response or throws (boloService.ts:117-124)
Failure == [status |-> "rejected"]
Outcomes == [status : {"resolved"}, result : Responses] \cup {Failure}
Resolved(o) == o.status = "resolved"

NoRecord == [id |-> "null"]
NoOutcome == [status |-> "none"]

\* A finalized segment: the size of its recorded data, what requested the encoder stop
\* ("user", "postSpeech", "initialSilence" or "teardown") and whether a sample had
\* classified as speech when the stop was requested
Segment(d, cause, spoke) == [size |-> d, cause |-> cause, spoke |-> spoke]
NoSegment == [cause |-> "none"]
NoSettings == [language |-> "none", handsFreeMode |-> FALSE]

----------------------------------------------------------------------------
(* The Console instance as one record, so that the functions of the        *)
(* component can be composed the way the code calls them.                  *)

Cur ==
    [isRecording |-> isRecording, isProcessing |-> isProcessing, errorMsg |-> errorMsg,
     stream |-> streamRef, ctx |-> audioContextRef, analyser |-> analyserRef,
     rec |-> mediaRecorderRef, manualStop |-> manualStopRef,
     lastSpeech |-> lastSpeechTimestampRef, hasSpoken |-> hasSpokenSinceStartRef,
     startTime |-> startTimeRef, chunks |-> chunksRef, raf |-> animationFrameRef,
     loops |-> loops, stopEvents |-> stopEvents, inflight |-> inflight,
     timers |-> timers, rafLive |-> rafLive, leaked |-> leakedStreams]

Apply(e) ==
    /\ isRecording' = e.isRecording
    /\ isProcessing' = e.isProcessing
    /\ errorMsg' = e.errorMsg
    /\ streamRef' = e.stream
    /\ audioContextRef' = e.ctx
    /\ analyserRef' = e.analyser
    /\ mediaRecorderRef' = e.rec
    /\ manualStopRef' = e.manualStop
    /\ lastSpeechTimestampRef' = e.lastSpeech
    /\ hasSpokenSinceStartRef' = e.hasSpoken
    /\ startTimeRef' = e.startTime
    /\ chunksRef' = e.chunks
    /\ animationFrameRef' = e.raf
    /\ loops' = e.loops
    /\ stopEvents' = e.stopEvents
    /\ inflight' = e.inflight
    /\ timers' = e.timers
    /\ rafLive' = e.rafLive
    /\ leakedStreams' = e.leaked

\* Console.tsx:173-178.  stop() queues the recorder's dataavailable and stop events;
\* d is the size of the data recorded.  cause is kept for the history only.
stopRecorderSession(e, d, cause) ==
    IF e.rec = "recording"
    THEN [e EXCEPT !.rec = "inactive",
                   !.stopEvents = Append(@, Segment(d, cause, e.hasSpoken))]
    ELSE e

\* IsSpeech counting a sample at the threshold itself as speech
IsSpeechInclusive(avgVol) == avgVol >= SPEECH_THRESHOLD_VOLUME

\* Console.tsx:214: a sample is speech when the mean magnitude exceeds the threshold
IsSpeech(avgVol) == avgVol > SPEECH_THRESHOLD_VOLUME

\* Console.tsx:212-220
Vad(e, avgVol, t) ==
    IF IsSpeech(avgVol)
    THEN [e EXCEPT !.lastSpeech = t, !.hasSpoken = TRUE]
    ELSE e

\* The handlers of Console reading the settings App holds now
LiveSettings == settings

\* The handlers of Console taking every session for a hands-free one
HandsFreeSettings == [capSettings EXCEPT !.handsFreeMode = TRUE]

\* Console.tsx:16: settings is a prop destructured in the component body, so every
\* handler reads the value of the render that created it.  initAudio creates the
\* recorder handlers and updateLoop is scheduled from handleToggleRecord: both hold
\* the settings of the render in which a start was clicked.
UsedSettings == capSettings

\* updateLoop reading the isRecording of the latest render
LoopIsRecordingLive(e, cap) == e.isRecording

\* Console.tsx:223: the isRecording an updateLoop closure reads is the one of the
\* render that created the closure (isRecording is a useState value, line 17)
LoopIsRecording(e, cap) == cap

\* The post-speech guard firing at the threshold itself
PostSpeechTimeoutDueInclusive(e, t) == t - e.lastSpeech >= SILENCE_THRESHOLD_MS

\* Console.tsx:228-229
PostSpeechTimeoutDue(e, t) == t - e.lastSpeech > SILENCE_THRESHOLD_MS

\* Console.tsx:236-237
InitialSilenceTimeoutDue(e, t) == t - e.startTime > INITIAL_SILENCE_TIMEOUT_MS

\* Console.tsx:200-249, one run of updateLoop at time t.  A run that reaches line 248
\* leaves one more frame scheduled.
updateLoop(e, avgVol, t, cap, d) ==
    IF ~e.analyser THEN e
    ELSE
      LET v == Vad(e, avgVol, t)
          again == [v EXCEPT !.raf = TRUE, !.rafLive = TRUE, !.loops = @ + 1]
      IN IF LoopIsRecording(v, cap) /\ UsedSettings.handsFreeMode
         THEN IF v.hasSpoken
              THEN IF PostSpeechTimeoutDue(v, t)
                   THEN stopRecorderSession(v, d, "postSpeech")
                   ELSE again
              ELSE IF InitialSilenceTimeoutDue(v, t)
                   THEN stopRecorderSession([v EXCEPT !.manualStop = TRUE], d,
                                            "initialSilence")
                   ELSE again
         ELSE again

\* MediaRecorder.start() throws when the stream has no live track; the catch of
\* Console.tsx:168-170 swallows it
StartThrows(e) == e.stream # "active"

\* startRecorderSession taking a new stream before it starts the encoder
startRecorderSessionReacquires(e, avgVol, t, cap, d) ==
    IF e.rec = "null" THEN e
    ELSE
      LET r == [e EXCEPT !.hasSpoken = FALSE, !.lastSpeech = t, !.startTime = t,
                         !.manualStop = FALSE, !.chunks = 0,
                         !.leaked = IF e.stream = "active" THEN @ + 1 ELSE @,
                         !.stream = "active"]
      IN IF r.rec = "inactive"
         THEN [r EXCEPT !.rec = "recording", !.isRecording = TRUE]
         ELSE r

\* startRecorderSession leaving the speech flag of the previous segment in place
startRecorderSessionKeepsFlag(e, avgVol, t, cap, d) ==
    IF e.rec = "null" THEN e
    ELSE
      LET r == [e EXCEPT !.lastSpeech = t, !.startTime = t,
                         !.manualStop = FALSE, !.chunks = 0]
      IN IF r.rec = "inactive" /\ ~StartThrows(r)
         THEN LET s == [r EXCEPT !.rec = "recording", !.isRecording = TRUE]
              IN IF ~s.raf THEN updateLoop(s, avgVol, t, cap, d) ELSE s
         ELSE r

\* Console.tsx:150-171
startRecorderSession(e, avgVol, t, cap, d) ==
    IF e.rec = "null" THEN e
    ELSE
      LET r == [e EXCEPT !.hasSpoken = FALSE, !.lastSpeech = t, !.startTime = t,
                         !.manualStop = FALSE, !.chunks = 0]
      IN IF r.rec = "inactive" /\ ~StartThrows(r)
         THEN LET s == [r EXCEPT !.rec = "recording", !.isRecording = TRUE]
              IN IF ~s.raf THEN updateLoop(s, avgVol, t, cap, d) ELSE s
         ELSE r

\* Console.tsx:188-193, after initAudio returned true
startAfterInit(e, avgVol, t, cap, d) ==
    updateLoop(startRecorderSession([e EXCEPT !.manualStop = FALSE], avgVol, t, cap, d),
               avgVol, t, cap, d)

\* Console.tsx:68-82: the refs a successful initAudio sets.  A stream that streamRef
\* held with live tracks stays live and is referenced no more.
initAudioOk(e) ==
    [e EXCEPT !.stream = "active", !.ctx = "running", !.analyser = TRUE,
              !.rec = "inactive",
              !.leaked = IF e.stream = "active" THEN @ + 1 ELSE @]

\* Console.tsx:68-81 and 143-146: getUserMedia resolved and a later statement of the
\* try threw: the AudioContext constructor (line 71, at = "context") or the
\* MediaRecorder constructor (line 81, at = "recorder").  The refs written before
\* the exception keep their values.
initAudioPartial(e, at) ==
    LET a == [e EXCEPT !.stream = "active",
                       !.leaked = IF e.stream = "active" THEN @ + 1 ELSE @,
                       !.errorMsg = "Microphone access failed."]
    IN IF at = "recorder" THEN [a EXCEPT !.ctx = "running", !.analyser = TRUE] ELSE a

\* Console.tsx:43-54
shutdownAudio(e, d) ==
    LET a == IF e.raf /\ e.rafLive
             THEN [e EXCEPT !.loops = @ - 1, !.rafLive = FALSE] ELSE e
        b == IF a.rec # "null" /\ a.rec # "inactive"
             THEN stopRecorderSession(a, d, "teardown") ELSE a
        c == IF b.stream = "active" THEN [b EXCEPT !.stream = "stopped"] ELSE b
    IN IF c.ctx = "running" THEN [c EXCEPT !.ctx = "closed"] ELSE c

\* ShouldProcess deciding by the VAD flag in every mode
ShouldProcessVadOnly(e) == e.hasSpoken

\* Console.tsx:98
ShouldProcess(e) == IF UsedSettings.handsFreeMode THEN e.hasSpoken ELSE TRUE

\* finishStop taking the restart branch in every mode
finishStopAlwaysRestarts(e, seg) ==
    [e EXCEPT !.isProcessing = FALSE, !.timers = Append(@, seg.cause)]

\* Console.tsx:128-139, at the end of the stop handler of segment seg
finishStop(e, seg) ==
    LET p == [e EXCEPT !.isProcessing = FALSE]
    IN IF UsedSettings.handsFreeMode /\ ~p.manualStop
       THEN [p EXCEPT !.timers = Append(@, seg.cause)]
       ELSE [p EXCEPT !.isRecording = FALSE]

\* onstopBegin leaving the chunks it has read in the buffer
onstopBeginKeepsChunks(e) ==
    LET seg == Head(e.stopEvents)
        pushed == IF seg.size > 0 THEN [e EXCEPT !.chunks = @ + seg.size] ELSE e
        audioBlob == pushed.chunks
        p == [pushed EXCEPT !.isProcessing = TRUE, !.stopEvents = Tail(@)]
    IN IF ShouldProcess(p) /\ audioBlob > 0
       THEN [p EXCEPT !.inflight = Append(@, [seg EXCEPT !.size = audioBlob])]
       ELSE finishStop(p, seg)

\* Console.tsx:85-102 and 124-126: dataavailable with the data of the first queued
\* event, then the stop handler up to the await of processAudio, or to its end when
\* nothing is dispatched
onstopBegin(e) ==
    LET seg == Head(e.stopEvents)
        pushed == IF seg.size > 0 THEN [e EXCEPT !.chunks = @ + seg.size] ELSE e
        audioBlob == pushed.chunks
        p == [pushed EXCEPT !.isProcessing = TRUE, !.chunks = 0,
                            !.stopEvents = Tail(@)]
    IN IF ShouldProcess(p) /\ audioBlob > 0
       THEN [p EXCEPT !.inflight = Append(@, [seg EXCEPT !.size = audioBlob])]
       ELSE finishStop(p, seg)

\* Console.tsx:102 and boloService.ts:41: the language processAudio is given
LanguageHint == UsedSettings.language

\* Console.tsx:105
CleanedText(result) == IF result.text # <<>> THEN Trim(result.text) ELSE <<>>

\* IsRealText without the sentinel test
IsRealTextNoSentinel(cleanedText) == Len(cleanedText) > 0

\* Console.tsx:106
IsRealText(cleanedText) == Len(cleanedText) > 0 /\ cleanedText # SILENCE

\* NewRecord trimming the translation as it trims the text
NewRecordTrimsBoth(result, t) ==
    [id |-> ToString(t), originalText |-> CleanedText(result),
     detectedLanguage |-> result.detectedLanguage,
     translatedText |-> Trim(result.englishTranslation), timestamp |-> t]

\* Console.tsx:107-113
NewRecord(result, t) ==
    [id |-> ToString(t), originalText |-> CleanedText(result),
     detectedLanguage |-> result.detectedLanguage,
     translatedText |-> result.englishTranslation, timestamp |-> t]

\* onProcessFailed surfacing nothing in any mode
onProcessFailedSilent(e) == e

\* onProcessFailed surfacing the error in every mode
onProcessFailedLoud(e) == [e EXCEPT !.errorMsg = "Could not process audio."]

\* Console.tsx:118-123
onProcessFailed(e) ==
    IF ~UsedSettings.handsFreeMode
    THEN [e EXCEPT !.errorMsg = "Could not process audio."]
    ELSE e

\* s without its i-th element
Without(s, i) == SubSeq(s, 1, i - 1) \o SubSeq(s, i + 1, Len(s))

\* Console.tsx:102-139: the stop handler from the completion of the i-th pending
\* processAudio call, with outcome o, on
onstopResume(e, i, o) ==
    LET r == [e EXCEPT !.inflight = Without(@, i)]
    IN finishStop(IF Resolved(o) THEN r ELSE onProcessFailed(r), e.inflight[i])

\* Console.tsx:106-114: the record handed to onTranscriptionComplete, if any
Emitted(o, t) ==
    IF Resolved(o) /\ IsRealText(CleanedText(o.result)) THEN NewRecord(o.result, t) ELSE NoRecord

----------------------------------------------------------------------------
(* App, src/unnamed/part_000 *)

\* part_000:200-202: the view after a record was handed over
ViewAfterRecord(view) == IF ~UsedSettings.handsFreeMode THEN "EDITOR" ELSE view

----------------------------------------------------------------------------
(* Clipboard delivery, src/unnamed/part_000:100-178 *)

\* What tier 1 can do: navigator.clipboard is missing, writeText throws, the promise
\* of writeText rejects, or it resolves
Tier1Outcomes == {"unavailable", "throws", "rejects", "resolves"}

\* What tiers 2 and 3 can do: an exception before the helper element is attached, an
\* exception after it (focus, selection or execCommand), or the value of execCommand
LegacyOutcomes == {"throwsBeforeAppend", "throwsAfterAppend", "false", "true"}

TierOutcomes ==
    { oc \in [1..3 -> Tier1Outcomes \cup LegacyOutcomes] :
        oc[1] \in Tier1Outcomes /\ oc[2] \in LegacyOutcomes /\ oc[3] \in LegacyOutcomes }

\* The environment in which every tier-1 write resolves
ClipboardGranted == [k \in 1..3 |-> IF k = 1 THEN "resolves" ELSE "true"]

OldClip == <<"o", "l", "d">>
CopyTexts == {Hello, SILENCE}
NoCopy == [text |-> <<>>, result |-> "none", clipboard |-> <<>>, body |-> <<>>]

\* The state secureCopy works on, as one record
CopyCur ==
    [clipboard |-> clipboard, body |-> documentBody, attempted |-> copyAttempted,
     threw |-> copyThrew, result |-> copyResult]

\* part_000:103-110, the body of the first try
Stage1(c, text, o) ==
    IF o = "unavailable" THEN c
    ELSE LET a == [c EXCEPT !.attempted = Append(@, 1)]
         IN IF o = "resolves"
            THEN [a EXCEPT !.clipboard = text, !.result = "true"]
            ELSE [a EXCEPT !.threw = TRUE]

\* part_000:116-141 (helper = "textarea") and 147-172 (helper = "span"), the body of
\* a try around a legacy copy: tier k attaches the helper, selects it, runs
\* execCommand('copy') and removes the helper
LegacyStage(c, text, o, k, helper) ==
    LET a == [c EXCEPT !.attempted = Append(@, k)]
    IN CASE o = "throwsBeforeAppend" -> [a EXCEPT !.threw = TRUE]
         [] o = "throwsAfterAppend" ->
                [a EXCEPT !.body = Append(@, helper), !.threw = TRUE]
         [] o = "false" -> a
         [] o = "true" -> [a EXCEPT !.clipboard = text, !.result = "true"]

\* A catch that lets the exception through
CatchNothing(c) == c

\* part_000:109-111, 142-144, 173-175: catch (err) { console.warn(...) }
Catch(c) == [c EXCEPT !.threw = FALSE]

\* secureCopy giving up after tier 2
secureCopyTwoTiers(c0, text, oc) ==
    LET c == [c0 EXCEPT !.attempted = <<>>, !.result = "none", !.threw = FALSE]
        s1 == Catch(Stage1(c, text, oc[1]))
    IN IF s1.threw \/ s1.result = "true" THEN s1
       ELSE LET s2 == Catch(LegacyStage(s1, text, oc[2], 2, "textarea"))
            IN IF s2.threw \/ s2.result = "true" THEN s2
               ELSE [s2 EXCEPT !.result = "false"]

\* part_000:100-178.  An exception that leaves a try block uncaught ends the call.
secureCopy(c0, text, oc) ==
    LET c == [c0 EXCEPT !.attempted = <<>>, !.result = "none", !.threw = FALSE]
        s1 == Catch(Stage1(c, text, oc[1]))
    IN IF s1.threw \/ s1.result = "true" THEN s1
       ELSE LET s2 == Catch(LegacyStage(s1, text, oc[2], 2, "textarea"))
            IN IF s2.threw \/ s2.result = "true" THEN s2
               ELSE LET s3 == Catch(LegacyStage(s2, text, oc[3], 3, "span"))
                    IN IF s3.threw \/ s3.result = "true" THEN s3
                       ELSE [s3 EXCEPT !.result = "false"]

\* A call of secureCopy(text) in the current browser state
CopyApply(text) ==
    LET c == secureCopy(CopyCur, text, tierOutcomes)
    IN /\ clipboard' = c.clipboard
       /\ documentBody' = c.body
       /\ copyAttempted' = c.attempted
       /\ copyThrew' = c.threw
       /\ copyResult' = c.result
       /\ copyText' = text
       /\ copyCalls' = copyCalls + 1
       /\ firstCopy' = IF copyCalls = 0
                       THEN [text |-> text, result |-> c.result,
                             clipboard |-> c.clipboard, body |-> c.body]
                       ELSE firstCopy
       /\ UNCHANGED tierOutcomes

----------------------------------------------------------------------------
(* Delivery of a record by App, src/unnamed/part_000:73-98 and 180-214 *)

\* What playing the confirmation sound can do: no AudioContext in the window, the
\* sound plays, or a Web Audio call throws
SoundOutcomes == {"unavailable", "plays", "throws"}

\* part_000:75-94, the body of the try
SoundTry(o) ==
    CASE o = "unavailable" -> [sound |-> "silent", threw |-> FALSE]
      [] o = "plays" -> [sound |-> "played", threw |-> FALSE]
      [] o = "throws" -> [sound |-> "failed", threw |-> TRUE]

\* playSuccessSound without its catch
playSuccessSoundUncaught(o) == SoundTry(o)

\* part_000:73-98
playSuccessSound(o) == [SoundTry(o) EXCEPT !.threw = FALSE]

CopyBlocked == "Auto-copy blocked by browser."

\* The state of App a then-callback of secureCopy works on, as one record
DeliveryCur ==
    [activeRecord |-> activeRecord, copyError |-> copyError, lastSound |-> lastSound,
     thenThrew |-> thenThrew, failedRecord |-> failedRecord]

\* part_000:187-189 and 208-210: the success branch.  An exception of
\* playSuccessSound would leave the callback before setCopyError.
thenSuccess(a, so) ==
    LET s == playSuccessSound(so)
    IN IF s.threw
       THEN [a EXCEPT !.lastSound = s.sound, !.thenThrew = TRUE]
       ELSE [a EXCEPT !.lastSound = s.sound, !.copyError = "null",
                      !.failedRecord = NoRecord]

\* part_000:186-196: the then-callback of the automatic copy of record
thenAuto(a, record, success, so) ==
    IF success = "true" THEN thenSuccess(a, so)
    ELSE IF success = "false"
         THEN [a EXCEPT !.activeRecord = record, !.copyError = CopyBlocked,
                        !.failedRecord = record]
         ELSE a

\* part_000:207-212: the then-callback of a manual retry
thenRetry(a, success, so) ==
    IF success = "true" THEN thenSuccess(a, so) ELSE a

\* The App state a then-callback leaves
ApplyDelivery(a) ==
    /\ activeRecord' = a.activeRecord
    /\ copyError' = a.copyError
    /\ lastSound' = a.lastSound
    /\ thenThrew' = a.thenThrew
    /\ failedRecord' = a.failedRecord

----------------------------------------------------------------------------
(* Initial state: App and Console just mounted (Console.tsx:17-34) *)

InitEngine ==
    /\ settings \in [language : {"Auto-Detect"}, handsFreeMode : BOOLEAN]
    /\ capSettings = settings
    /\ startSettings = NoSettings
    /\ mounted = TRUE
    /\ currentView = "CONSOLE"
    /\ history = <<>>
    /\ activeRecord = NoRecord
    /\ isRecording = FALSE
    /\ isProcessing = FALSE
    /\ errorMsg = "null"
    /\ streamRef = "null"
    /\ audioContextRef = "null"
    /\ analyserRef = FALSE
    /\ mediaRecorderRef = "null"
    /\ manualStopRef = FALSE
    /\ lastSpeechTimestampRef = 0
    /\ hasSpokenSinceStartRef = FALSE
    /\ startTimeRef = 0
    /\ chunksRef = 0
    /\ animationFrameRef = FALSE
    /\ capIsRecording = FALSE
    /\ loops = 0
    /\ pendingAcq = 0
    /\ stopEvents = <<>>
    /\ inflight = <<>>
    /\ timers = <<>>
    /\ now = 0
    /\ clicks = 0
    /\ lastReturn = NoOutcome
    /\ lastEnded = NoSegment
    /\ rafLive = FALSE
    /\ leakedStreams = 0
    /\ callsAtTeardown = 0
    /\ lastEvent = "none"

\* No secureCopy call was made yet
InitCopy ==
    /\ clipboard = OldClip
    /\ documentBody = <<>>
    /\ copyText = <<>>
    /\ copyAttempted = <<>>
    /\ copyThrew = FALSE
    /\ copyResult = "none"
    /\ copyCalls = 0
    /\ firstCopy = NoCopy

\* No record was delivered yet (part_000:18)
InitDelivery ==
    /\ copyError = "null"
    /\ pendingCopies = <<>>
    /\ lastSound = "none"
    /\ thenThrew = FALSE
    /\ failedRecord = NoRecord

Init ==
    /\ InitEngine
    /\ InitCopy
    /\ InitDelivery
    /\ tierOutcomes = ClipboardGranted
    /\ soundOutcome = "plays"

----------------------------------------------------------------------------
(* Actions *)

\* Console.tsx:180-182, 186-194 and 57-58: a click on the record button while the
\* button shows "start".  With a live stream initAudio returns at once and the
\* session starts in the same task; otherwise getUserMedia is pending.
UserStart(avgVol, d) ==
    /\ mounted /\ ~isRecording /\ ~isProcessing
    /\ clicks < MaxClicks
    /\ clicks' = clicks + 1
    /\ capIsRecording' = isRecording
    /\ LET e == [Cur EXCEPT !.errorMsg = "null"]
       IN IF streamRef = "active"
          THEN /\ Apply(startAfterInit(e, avgVol, now, isRecording, d))
               /\ pendingAcq' = pendingAcq
          ELSE /\ Apply(e)
               /\ pendingAcq' = pendingAcq + 1
    /\ lastReturn' = NoOutcome /\ lastEnded' = NoSegment
    /\ lastEvent' = "none"
    /\ capSettings' = settings
    /\ startSettings' = IF mediaRecorderRef' = "recording" THEN settings
                                                            ELSE startSettings
    /\ UNCHANGED <<callsAtTeardown, copyVars, deliveryVars>>
    /\ UNCHANGED <<settings, mounted, appVars, now>>

\* Console.tsx:61-82, 142 and 188-193: getUserMedia resolved
AcquireOk(avgVol, d) ==
    /\ pendingAcq > 0
    /\ pendingAcq' = pendingAcq - 1
    /\ Apply(startAfterInit(initAudioOk(Cur), avgVol, now, capIsRecording, d))
    /\ lastReturn' = NoOutcome /\ lastEnded' = NoSegment
    /\ lastEvent' = "none"
    /\ startSettings' = settings
    /\ UNCHANGED capSettings
    /\ UNCHANGED <<callsAtTeardown, copyVars, deliveryVars>>
    /\ UNCHANGED <<settings, mounted, appVars, capIsRecording, now, clicks>>

\* AcquireFail calling getUserMedia again
AcquireFailRetries ==
    /\ pendingAcq > 0
    /\ pendingAcq' = pendingAcq
    /\ Apply([Cur EXCEPT !.errorMsg = "Microphone access failed."])
    /\ lastReturn' = NoOutcome /\ lastEnded' = NoSegment
    /\ lastEvent' = "acquireFailed"
    /\ UNCHANGED <<capSettings, startSettings>>
    /\ UNCHANGED <<callsAtTeardown, copyVars, deliveryVars>>
    /\ UNCHANGED <<settings, mounted, appVars, capIsRecording, now, clicks>>

\* Console.tsx:143-147: getUserMedia rejected
AcquireFail ==
    /\ pendingAcq > 0
    /\ pendingAcq' = pendingAcq - 1
    /\ Apply([Cur EXCEPT !.errorMsg = "Microphone access failed."])
    /\ lastReturn' = NoOutcome /\ lastEnded' = NoSegment
    /\ lastEvent' = "acquireFailed"
    /\ UNCHANGED <<capSettings, startSettings>>
    /\ UNCHANGED <<callsAtTeardown, copyVars, deliveryVars>>
    /\ UNCHANGED <<settings, mounted, appVars, capIsRecording, now, clicks>>

\* Console.tsx:180-185: a click on the record button while it shows "stop"
\* (the button is disabled while isProcessing, lines 295-297)
UserStop(d) ==
    /\ mounted /\ isRecording /\ ~isProcessing
    /\ clicks < MaxClicks
    /\ clicks' = clicks + 1
    /\ Apply(stopRecorderSession([Cur EXCEPT !.errorMsg = "null", !.manualStop = TRUE],
                                 d, "user"))
    /\ lastReturn' = NoOutcome /\ lastEnded' = NoSegment
    /\ lastEvent' = "none"
    /\ UNCHANGED <<capSettings, startSettings>>
    /\ UNCHANGED <<callsAtTeardown, copyVars, deliveryVars>>
    /\ UNCHANGED <<settings, mounted, appVars, capIsRecording, pendingAcq, now>>

\* Console.tsx:200-249: an animation frame runs updateLoop; dt is the time since the
\* previous frame
Tick(avgVol, dt, d) ==
    /\ loops > 0
    /\ now + dt <= MaxNow
    /\ now' = now + dt
    /\ Apply(updateLoop([Cur EXCEPT !.loops = @ - 1], avgVol, now', capIsRecording, d))
    /\ lastReturn' = NoOutcome /\ lastEnded' = NoSegment
    /\ lastEvent' = "none"
    /\ UNCHANGED <<capSettings, startSettings>>
    /\ UNCHANGED <<callsAtTeardown, copyVars, deliveryVars>>
    /\ UNCHANGED <<settings, mounted, appVars, capIsRecording, pendingAcq, clicks>>

\* Console.tsx:85-102, 124-139: the recorder's dataavailable and stop events.  A
\* handler that hands the segment to processAudio is followed by a service call that
\* takes at least dt.
StopEventTaking(dt) ==
    /\ stopEvents # <<>>
    /\ Apply(onstopBegin(Cur))
    /\ lastReturn' = NoOutcome
    /\ lastEvent' = "none"
    /\ UNCHANGED <<capSettings, startSettings>>
    /\ UNCHANGED <<callsAtTeardown, copyVars, deliveryVars>>
    /\ lastEnded' = IF Len(onstopBegin(Cur).inflight) > Len(inflight)
                    THEN NoSegment ELSE Head(stopEvents)
    /\ now' = IF Len(onstopBegin(Cur).inflight) > Len(inflight) THEN now + dt ELSE now
    /\ UNCHANGED <<settings, mounted, appVars, capIsRecording, pendingAcq, clicks>>

\* The stop handler with the clock read at animation frames only
StopEvent == StopEventTaking(0)

\* Console.tsx:102-139 and part_000:180-203: the i-th pending processAudio call
\* settles with outcome o.  A record that moves App to the editor unmounts Console, whose cleanup
\* (Console.tsx:37-41) runs once the handler has finished.  The record is copied to
\* the clipboard (part_000:186-196); the copy and its then-callback share no state
\* with the engine and are taken in the same step.
ServiceReturn(i, o, d) ==
    /\ i \in 1..Len(inflight)
    /\ LET e == onstopResume(Cur, i, o)
           record == Emitted(o, now)
           view == IF record # NoRecord THEN ViewAfterRecord(currentView) ELSE currentView
           unmounts == mounted /\ view # "CONSOLE"
       IN /\ Apply(IF unmounts THEN shutdownAudio(e, d) ELSE e)
          /\ mounted' = (mounted /\ ~unmounts)
          /\ currentView' = view
          /\ history' = IF record # NoRecord THEN <<record>> \o history ELSE history
          /\ lastReturn' = o
          /\ lastEnded' = inflight[i]
          /\ callsAtTeardown' = IF unmounts THEN Len(e.inflight)
                                ELSE IF i <= callsAtTeardown THEN callsAtTeardown - 1
                                ELSE callsAtTeardown
          /\ lastEvent' = "none"
          /\ UNCHANGED <<capSettings, startSettings>>
          /\ IF record # NoRecord
             THEN /\ CopyApply(record.originalText)
                  /\ ApplyDelivery(thenAuto([DeliveryCur EXCEPT !.activeRecord = record],
                                            record, copyResult', soundOutcome))
                  /\ UNCHANGED <<pendingCopies, soundOutcome>>
             ELSE UNCHANGED <<activeRecord, copyVars, deliveryVars>>
    /\ UNCHANGED <<settings, capIsRecording, pendingAcq, now, clicks>>

\* Console.tsx:134-136: the restart timeout fires
RestartTimer(avgVol, d) ==
    /\ timers # <<>>
    /\ Apply(startRecorderSession([Cur EXCEPT !.timers = Tail(@)], avgVol, now,
                                  capIsRecording, d))
    /\ lastReturn' = NoOutcome /\ lastEnded' = NoSegment
    /\ lastEvent' = "restart"
    /\ startSettings' = IF mediaRecorderRef = "inactive" /\ mediaRecorderRef' = "recording"
                        THEN settings ELSE startSettings
    /\ UNCHANGED capSettings
    /\ UNCHANGED <<callsAtTeardown, copyVars, deliveryVars>>
    /\ UNCHANGED <<settings, mounted, appVars, capIsRecording, pendingAcq, now, clicks>>

\* part_000:246-264, 296-302 and Console.tsx:37-41: the user leaves the console view
Unmount(view, d) ==
    /\ mounted
    /\ mounted' = FALSE
    /\ currentView' = view
    /\ Apply(shutdownAudio(Cur, d))
    /\ lastReturn' = NoOutcome /\ lastEnded' = NoSegment
    /\ lastEvent' = "none"
    /\ UNCHANGED <<capSettings, startSettings>>
    /\ callsAtTeardown' = Len(inflight)
    /\ UNCHANGED <<settings, history, activeRecord, capIsRecording, pendingAcq, now,
                   clicks, copyVars, deliveryVars>>

Next ==
    \/ \E v \in AvgVols, d \in DataSizes : UserStart(v, d)
    \/ \E v \in AvgVols, d \in DataSizes : AcquireOk(v, d)
    \/ AcquireFail
    \/ \E d \in DataSizes : UserStop(d)
    \/ \E v \in AvgVols, dt \in {0, ClockStep}, d \in DataSizes : Tick(v, dt, d)
    \/ StopEvent
    \/ \E i \in 1..MaxClicks, o \in Outcomes, d \in DataSizes : ServiceReturn(i, o, d)
    \/ \E v \in AvgVols, d \in DataSizes : RestartTimer(v, d)
    \/ \E view \in LeaveViews, d \in DataSizes : Unmount(view, d)

Spec == Init /\ [][Next]_vars

\* The engine with a clock that also counts the time a service call takes: a call
\* handed to processAudio (a fetch, boloService.ts:35-125) settles at least CallTime
\* after its dispatch, so that only calls pending at the same time can settle in the
\* same millisecond
TimedNext ==
    \/ \E v \in AvgVols, d \in DataSizes : UserStart(v, d)
    \/ \E v \in AvgVols, d \in DataSizes : AcquireOk(v, d)
    \/ AcquireFail
    \/ \E d \in DataSizes : UserStop(d)
    \/ \E v \in AvgVols, dt \in {0, ClockStep}, d \in DataSizes : Tick(v, dt, d)
    \/ StopEventTaking(CallTime)
    \/ \E i \in 1..MaxClicks, o \in Outcomes, d \in DataSizes : ServiceReturn(i, o, d)
    \/ \E v \in AvgVols, d \in DataSizes : RestartTimer(v, d)
    \/ \E view \in LeaveViews, d \in DataSizes : Unmount(view, d)

TimedSpec == Init /\ [][TimedNext]_vars

\* Console.tsx:61-82 and 143-147: getUserMedia resolved and initAudio threw after
\* it had stored the stream; it reports failure
AcquirePartial(at) ==
    /\ pendingAcq > 0
    /\ pendingAcq' = pendingAcq - 1
    /\ Apply(initAudioPartial(Cur, at))
    /\ lastReturn' = NoOutcome /\ lastEnded' = NoSegment
    /\ lastEvent' = "acquireFailed"
    /\ UNCHANGED <<capSettings, startSettings>>
    /\ UNCHANGED <<callsAtTeardown, copyVars, deliveryVars>>
    /\ UNCHANGED <<settings, mounted, appVars, capIsRecording, now, clicks>>

\* The engine with an initAudio that can fail after the stream was acquired
PartialNext ==
    \/ \E v \in AvgVols, d \in DataSizes : UserStart(v, d)
    \/ \E v \in AvgVols, d \in DataSizes : AcquireOk(v, d)
    \/ AcquireFail
    \/ \E at \in {"context", "recorder"} : AcquirePartial(at)
    \/ \E d \in DataSizes : UserStop(d)
    \/ \E v \in AvgVols, dt \in {0, ClockStep}, d \in DataSizes : Tick(v, dt, d)
    \/ StopEvent
    \/ \E i \in 1..MaxClicks, o \in Outcomes, d \in DataSizes : ServiceReturn(i, o, d)
    \/ \E v \in AvgVols, d \in DataSizes : RestartTimer(v, d)

PartialSpec == Init /\ [][PartialNext]_vars

\* The microphone track of the stream streamRef holds ends (the device is removed or
\* the permission withdrawn): the stream is no longer active, and a MediaRecorder
\* recording it stops by itself and queues its dataavailable and stop events
\* (Console.tsx:58, 85-89 and 161-162 read what this leaves)
TrackEnds(d) ==
    /\ streamRef = "active"
    /\ Apply(stopRecorderSession([Cur EXCEPT !.stream = "stopped"], d, "trackEnded"))
    /\ lastReturn' = NoOutcome /\ lastEnded' = NoSegment
    /\ lastEvent' = "none"
    /\ UNCHANGED <<capSettings, startSettings>>
    /\ UNCHANGED <<callsAtTeardown, copyVars, deliveryVars>>
    /\ UNCHANGED <<settings, mounted, appVars, capIsRecording, pendingAcq, now, clicks>>

engineVars ==
    <<settings, capSettings, startSettings, mounted, currentView,
      history, activeRecord, isRecording,
      isProcessing, errorMsg, streamRef, audioContextRef, analyserRef,
      mediaRecorderRef, manualStopRef, lastSpeechTimestampRef,
      hasSpokenSinceStartRef, startTimeRef, chunksRef, animationFrameRef,
      capIsRecording, loops, pendingAcq, stopEvents, inflight, timers, now,
      clicks, lastReturn, lastEnded, rafLive, leakedStreams, callsAtTeardown,
      lastEvent>>

\* part_000:186 and 207: a caller invokes secureCopy(text)
CopyInvoke(text) ==
    /\ copyCalls < MaxCopies
    /\ CopyApply(text)
    /\ UNCHANGED <<engineVars, deliveryVars>>

\* Clipboard delivery on its own: every browser behaviour of the three tiers, and
\* secureCopy called up to MaxCopies times
CopyInit ==
    /\ InitEngine
    /\ InitCopy
    /\ InitDelivery
    /\ soundOutcome = "plays"
    /\ tierOutcomes \in TierOutcomes

CopyNext == \E text \in CopyTexts : CopyInvoke(text)

CopySpec == CopyInit /\ [][CopyNext]_vars

----------------------------------------------------------------------------
(* App on its own: Console is the source of the records, the browser grants or   *)
(* blocks the clipboard, and the user retries, navigates, selects and deletes.   *)

\* What Console holds, untouched by App's handlers
consoleVars ==
    <<settings, capSettings, startSettings, isRecording, isProcessing, errorMsg,
      streamRef, audioContextRef, analyserRef, mediaRecorderRef, manualStopRef,
      lastSpeechTimestampRef, hasSpokenSinceStartRef, startTimeRef, chunksRef,
      animationFrameRef, capIsRecording, loops, pendingAcq, stopEvents, inflight,
      timers, clicks, lastEnded, rafLive, leakedStreams, callsAtTeardown, lastEvent>>

\* Responses of the service whose language and translation vary
AppResponses ==
    [text : Texts, detectedLanguage : {"English", "Hindi"},
     englishTranslation : {Hello, <<" ", "H", "i", " ">>}]

\* Every tier of the clipboard fails: the write is rejected (tab not focused,
\* part_000:103) and execCommand returns false
ClipboardBlocked == [k \in 1..3 |-> IF k = 1 THEN "rejects" ELSE "false"]

\* A pending secureCopy promise
PendingCopy(kind, record, success) ==
    [kind |-> kind, record |-> record, success |-> success]

\* The result secureCopy's promise carries
PromiseResult(c) == IF c.threw THEN "rejected" ELSE c.result

\* Console.tsx:105-114 and part_000:180-203: the stop handler of Console builds a
\* record from a response with real text, ClockStep after the previous one, and
\* hands it to handleTranscriptionComplete, which starts the automatic copy
RecordEmitted(result) ==
    /\ copyCalls < MaxCopies
    /\ now + ClockStep <= MaxNow
    /\ IsRealText(CleanedText(result))
    /\ now' = now + ClockStep
    /\ LET record == NewRecord(result, now')
       IN /\ activeRecord' = record
          /\ history' = <<record>> \o history
          /\ CopyApply(record.originalText)
          /\ pendingCopies' =
                Append(pendingCopies,
                       PendingCopy("auto", record,
                                   PromiseResult(secureCopy(CopyCur, record.originalText,
                                                            tierOutcomes))))
    /\ currentView' = ViewAfterRecord(currentView)
    /\ mounted' = (mounted /\ currentView' = "CONSOLE")
    /\ lastReturn' = [status |-> "resolved", result |-> result]
    /\ UNCHANGED <<consoleVars, copyError, soundOutcome, lastSound, thenThrew,
                   failedRecord>>

\* part_000:186-196 and 207-212: the promise of the oldest pending secureCopy call
\* settles and its then-callback runs
CopySettled ==
    /\ pendingCopies # <<>>
    /\ LET p == Head(pendingCopies)
       IN ApplyDelivery(IF p.kind = "auto"
                        THEN thenAuto(DeliveryCur, p.record, p.success, soundOutcome)
                        ELSE thenRetry(DeliveryCur, p.success, soundOutcome))
    /\ pendingCopies' = Tail(pendingCopies)
    /\ lastReturn' = NoOutcome
    /\ UNCHANGED <<consoleVars, copyVars, soundOutcome, mounted, currentView, history,
                   now>>

\* part_000:205-214 and 329-332: a tap on the toast that shows while copyError is set
ManualRetryCopy ==
    /\ copyError # "null"
    /\ copyCalls < MaxCopies
    /\ IF activeRecord # NoRecord
       THEN /\ CopyApply(activeRecord.originalText)
            /\ pendingCopies' =
                  Append(pendingCopies,
                         PendingCopy("retry", activeRecord,
                                     PromiseResult(secureCopy(CopyCur,
                                                              activeRecord.originalText,
                                                              tierOutcomes))))
       ELSE UNCHANGED <<copyVars, pendingCopies>>
    /\ lastReturn' = NoOutcome
    /\ UNCHANGED <<consoleVars, appVars, mounted, now, copyError, soundOutcome,
                   lastSound, thenThrew, failedRecord>>

\* part_000:246-258: the navigation buttons
Navigate(view) ==
    /\ view # currentView
    /\ currentView' = view
    /\ mounted' = (mounted /\ view = "CONSOLE")
    /\ lastReturn' = NoOutcome
    /\ UNCHANGED <<consoleVars, history, activeRecord, now, copyVars, deliveryVars>>

\* part_000:216-219: a record of the history view is opened
handleHistorySelect(k) ==
    /\ currentView = "HISTORY"
    /\ k \in 1..Len(history)
    /\ activeRecord' = history[k]
    /\ currentView' = "EDITOR"
    /\ lastReturn' = NoOutcome
    /\ UNCHANGED <<consoleVars, history, mounted, now, copyVars, deliveryVars>>

\* Array.prototype.filter keeping the records whose id is not id
RECURSIVE WithoutId(_, _)
WithoutId(h, id) ==
    IF h = <<>> THEN h
    ELSE IF Head(h).id = id THEN WithoutId(Tail(h), id)
         ELSE <<Head(h)>> \o WithoutId(Tail(h), id)

\* part_000:226-232: a record of the history view is deleted
handleDeleteRecord(k) ==
    /\ currentView = "HISTORY"
    /\ k \in 1..Len(history)
    /\ history' = WithoutId(history, history[k].id)
    /\ IF activeRecord # NoRecord /\ activeRecord.id = history[k].id
       THEN activeRecord' = NoRecord /\ currentView' = "HISTORY"
       ELSE UNCHANGED <<activeRecord, currentView>>
    /\ lastReturn' = NoOutcome
    /\ UNCHANGED <<consoleVars, mounted, now, copyVars, deliveryVars>>

\* The browser grants or blocks clipboard writes (the tab gains or loses the focus)
ClipboardPermission(oc) ==
    /\ oc # tierOutcomes
    /\ tierOutcomes' = oc
    /\ lastReturn' = NoOutcome
    /\ UNCHANGED <<consoleVars, appVars, mounted, now, clipboard, documentBody,
                   copyText, copyAttempted, copyThrew, copyResult, copyCalls,
                   firstCopy, deliveryVars>>

AppInit ==
    /\ InitEngine
    /\ InitCopy
    /\ InitDelivery
    /\ tierOutcomes \in {ClipboardGranted, ClipboardBlocked}
    /\ soundOutcome \in SoundOutcomes

AppNext ==
    \/ \E result \in AppResponses : RecordEmitted(result)
    \/ CopySettled
    \/ ManualRetryCopy
    \/ \E view \in {"CONSOLE", "HISTORY"} : Navigate(view)
    \/ \E k \in 1..MaxCopies : handleHistorySelect(k)
    \/ \E k \in 1..MaxCopies : handleDeleteRecord(k)
    \/ \E oc \in {ClipboardGranted, ClipboardBlocked} : ClipboardPermission(oc)

AppSpec == AppInit /\ [][AppNext]_vars

\* part_001:11-13, 51 and 73: the settings view changes one key of the settings
UpdateSettings(s) ==
    /\ currentView = "SETTINGS"
    /\ s # settings
    /\ s.language = settings.language \/ s.handsFreeMode = settings.handsFreeMode
    /\ settings' = s
    /\ lastReturn' = NoOutcome /\ lastEnded' = NoSegment
    /\ lastEvent' = "none"
    /\ UNCHANGED <<capSettings, startSettings, mounted, appVars, isRecording,
                   isProcessing, errorMsg, streamRef, audioContextRef, analyserRef,
                   mediaRecorderRef, manualStopRef, lastSpeechTimestampRef,
                   hasSpokenSinceStartRef, startTimeRef, chunksRef, animationFrameRef,
                   capIsRecording, loops, pendingAcq, stopEvents, inflight, timers,
                   now, clicks, rafLive, leakedStreams, callsAtTeardown, copyVars,
                   deliveryVars>>

\* A started session with a user who stops and starts segments, opens the settings
\* view (which unmounts Console, part_000:259-264 and 296-302) and changes the
\* settings there while handlers of the unmounted Console are still pending
SettingsNext ==
    \/ \E v \in AvgVols, d \in DataSizes : UserStart(v, d)
    \/ \E d \in DataSizes : UserStop(d)
    \/ \E v \in AvgVols, dt \in {0, ClockStep}, d \in DataSizes : Tick(v, dt, d)
    \/ StopEvent
    \/ \E i \in 1..MaxClicks, o \in Outcomes, d \in DataSizes : ServiceReturn(i, o, d)
    \/ \E v \in AvgVols, d \in DataSizes : RestartTimer(v, d)
    \/ \E d \in DataSizes : Unmount("SETTINGS", d)
    \/ \E s \in [language : Languages, handsFreeMode : BOOLEAN] : UpdateSettings(s)

\* A manual or hands-free session whose first start has just succeeded: the state
\* after one start click and the resolution of getUserMedia, the first two runs of
\* updateLoop having read silence
SettingsInit ==
    /\ InitCopy
    /\ InitDelivery
    /\ soundOutcome = "plays"
    /\ tierOutcomes = ClipboardGranted
    /\ settings \in [language : Languages, handsFreeMode : BOOLEAN]
    /\ capSettings = settings
    /\ startSettings = settings
    /\ mounted = TRUE
    /\ currentView = "CONSOLE"
    /\ history = <<>>
    /\ activeRecord = NoRecord
    /\ isRecording = TRUE
    /\ isProcessing = FALSE
    /\ errorMsg = "null"
    /\ streamRef = "active"
    /\ audioContextRef = "running"
    /\ analyserRef = TRUE
    /\ mediaRecorderRef = "recording"
    /\ manualStopRef = FALSE
    /\ lastSpeechTimestampRef = 0
    /\ hasSpokenSinceStartRef = FALSE
    /\ startTimeRef = 0
    /\ chunksRef = 0
    /\ animationFrameRef = TRUE
    /\ capIsRecording = FALSE
    /\ loops = 2
    /\ pendingAcq = 0
    /\ stopEvents = <<>>
    /\ inflight = <<>>
    /\ timers = <<>>
    /\ now = 0
    /\ clicks = 1
    /\ lastReturn = NoOutcome
    /\ lastEnded = NoSegment
    /\ rafLive = TRUE
    /\ leakedStreams = 0
    /\ callsAtTeardown = 0
    /\ lastEvent = "none"

SettingsSpec == SettingsInit /\ [][SettingsNext]_vars

\* The state after the first click on start and a resolved acquisition, as SettingsInit
\* has it, in either mode
DeviceInit ==
    /\ SettingsInit
    /\ settings.language = "Auto-Detect"

\* The engine of a Console that stays mounted unless a record moves App to the
\* editor, with a microphone that can go away
DeviceNext ==
    \/ \E v \in AvgVols, d \in DataSizes : UserStart(v, d)
    \/ \E v \in AvgVols, d \in DataSizes : AcquireOk(v, d)
    \/ AcquireFail
    \/ \E d \in DataSizes : UserStop(d)
    \/ \E v \in AvgVols, dt \in {0, ClockStep}, d \in DataSizes : Tick(v, dt, d)
    \/ StopEvent
    \/ \E i \in 1..MaxClicks, o \in Outcomes, d \in DataSizes : ServiceReturn(i, o, d)
    \/ \E v \in AvgVols, d \in DataSizes : RestartTimer(v, d)
    \/ \E d \in DataSizes : TrackEnds(d)

DeviceSpec == DeviceInit /\ [][DeviceNext]_vars

\* updateLoop on its own, as a function of what it reads: a session whose encoder
\* has just started recording at time 0, in either mode, with either value of the
\* isRecording its closure holds, and frames LoopStep or ClockStep apart
LoopInit ==
    /\ \E f \in BOOLEAN : settings = [language |-> "Auto-Detect", handsFreeMode |-> f]
    /\ capSettings = settings
    /\ startSettings = settings
    /\ mounted = TRUE
    /\ currentView = "CONSOLE"
    /\ history = <<>>
    /\ activeRecord = NoRecord
    /\ isRecording = TRUE
    /\ isProcessing = FALSE
    /\ errorMsg = "null"
    /\ streamRef = "active"
    /\ audioContextRef = "running"
    /\ analyserRef = TRUE
    /\ mediaRecorderRef = "recording"
    /\ manualStopRef = FALSE
    /\ lastSpeechTimestampRef = 0
    /\ hasSpokenSinceStartRef = FALSE
    /\ startTimeRef = 0
    /\ chunksRef = 0
    /\ animationFrameRef = TRUE
    /\ capIsRecording \in BOOLEAN
    /\ loops = 1
    /\ pendingAcq = 0
    /\ stopEvents = <<>>
    /\ inflight = <<>>
    /\ timers = <<>>
    /\ now = 0
    /\ clicks = 1
    /\ lastReturn = NoOutcome
    /\ lastEnded = NoSegment
    /\ rafLive = TRUE
    /\ leakedStreams = 0
    /\ callsAtTeardown = 0
    /\ lastEvent = "none"
    /\ InitCopy
    /\ InitDelivery
    /\ soundOutcome = "plays"
    /\ tierOutcomes = ClipboardGranted

LoopNext ==
    \E v \in AvgVols, dt \in {0, LoopStep, ClockStep}, d \in DataSizes : Tick(v, dt, d)

LoopSpec == LoopInit /\ [][LoopNext]_vars

\* Tasks queued in the event loop are run: a settled getUserMedia promise continues
\* handleToggleRecord, a queued stop event runs the stop handler, the fetch of
\* processAudio settles, and a restart timeout fires.
FairSpec ==
    /\ Spec
    /\ WF_vars(\E v \in AvgVols, d \in DataSizes : AcquireOk(v, d) \/ AcquireFail)
    /\ WF_vars(StopEvent)
    /\ WF_vars(\E i \in 1..MaxClicks, o \in Outcomes, d \in DataSizes :
                  ServiceReturn(i, o, d))
    /\ WF_vars(\E v \in AvgVols, d \in DataSizes : RestartTimer(v, d))

----------------------------------------------------------------------------
(* The Idle state of the engine, read off the React state *)

Idle == ~isRecording /\ ~isProcessing

\* A stop requested by the user is waiting for its handler, or its service call is
\* pending
UserStopPending ==
    \/ \E k \in DOMAIN stopEvents : stopEvents[k].cause = "user"
    \/ \E k \in DOMAIN inflight : inflight[k].cause = "user"

\* A resolved service call whose text is the empty string
EmptyTextOutcome ==
    [status |-> "resolved",
     result |-> [text |-> <<>>, detectedLanguage |-> "English",
                 englishTranslation |-> Hello]]

\* The step just taken ran the stop handler of a segment to its end
HandlerEnded == lastEnded # NoSegment

----------------------------------------------------------------------------
(* Claims *)

\* C1: in manual mode, once a started session (acquisition succeeded, the engine was
\* Recording) has been stopped by the user, the engine passes through the stop
\* handler and eventually is Idle again, whatever the VAD history of the segment and
\* whatever the outcome of the service call.
C1_ManualStopReachesIdle ==
    (~settings.handsFreeMode /\ UserStopPending) ~> Idle

\* C1 witness: a manual segment without any speech sample, stopped by the user, whose
\* service call failed, and the engine back in Idle
C1_Witness ==
    /\ ~settings.handsFreeMode
    /\ lastEnded # NoSegment /\ lastEnded.cause = "user" /\ ~lastEnded.spoke
    /\ lastReturn = Failure
    /\ Idle

\* C2: in hands-free mode, once a sample of the segment has classified as speech, a
\* polling tick that runs more than SILENCE_THRESHOLD_MS after the last speech sample
\* stops the encoder (the stop handler then processes and restarts).  The clock
\* advances only in a polling tick, so no state has the encoder of a hands-free
\* segment with speech still recording past the threshold.
C2_PostSpeechSilenceStopsEncoder ==
    (settings.handsFreeMode /\ mediaRecorderRef = "recording" /\ hasSpokenSinceStartRef)
        => now - lastSpeechTimestampRef <= SILENCE_THRESHOLD_MS

\* C3: in hands-free mode, when no sample has classified as speech since the segment
\* started, a polling tick that runs more than INITIAL_SILENCE_TIMEOUT_MS after the
\* start stops the encoder (the segment then goes through Processing to Idle without
\* a service call).  So no state has the encoder of a hands-free segment without
\* speech still recording past the timeout.
C3_InitialSilenceStopsEncoder ==
    (settings.handsFreeMode /\ mediaRecorderRef = "recording" /\ ~hasSpokenSinceStartRef)
        => now - startTimeRef <= INITIAL_SILENCE_TIMEOUT_MS

\* C4: the restart timeout starts the encoder only in hands-free mode and only when
\* it was set by the handler of a segment that the post-speech silence timeout had
\* ended (the handler sets it only when the manual-stop flag is clear); and in manual
\* mode, or when the segment was ended by a user stop or by the initial-silence
\* timeout, the end of the stop handler leaves the engine Idle and sets no restart.
C4_RestartOnlyAfterPostSpeechTimeout ==
    [][ /\ (/\ Len(timers') < Len(timers)
            /\ mediaRecorderRef # "recording" /\ mediaRecorderRef' = "recording")
              => (settings.handsFreeMode /\ Head(timers) = "postSpeech")
        /\ (/\ lastEnded' # NoSegment
            /\ \/ ~settings.handsFreeMode
               \/ lastEnded'.cause \in {"user", "initialSilence"})
              => (~isRecording' /\ ~isProcessing' /\ timers' = timers) ]_vars

\* C5: in hands-free mode a segment that the user stopped never sets a restart: when
\* its stop handler has run to its end the engine is Idle, and no pending restart
\* timeout comes from a segment ended by a user stop.
C5_UserStopSuppressesRestart ==
    settings.handsFreeMode =>
        /\ \A k \in DOMAIN timers : timers[k] # "user"
        /\ (HandlerEnded /\ lastEnded.cause = "user") => Idle

\* C6: in hands-free mode every segment handed to processAudio is one in which a
\* sample had classified as speech.
C6_HandsFreeDispatchNeedsSpeech ==
    settings.handsFreeMode => \A k \in DOMAIN inflight : inflight[k].spoke

\* C7: in manual mode the stop handler of every segment with recorded data hands that
\* segment to processAudio, whether or not a sample classified as speech; and in
\* every mode a blob handed to processAudio is not empty.
C7_ManualDispatchesAllAudio ==
    [][ /\ (/\ ~settings.handsFreeMode
            /\ Len(stopEvents') < Len(stopEvents)
            /\ Head(stopEvents).size > 0)
              => (/\ Len(inflight') = Len(inflight) + 1
                  /\ inflight'[Len(inflight')] = Head(stopEvents))
        /\ Len(inflight') > Len(inflight) => inflight'[Len(inflight')].size > 0 ]_vars

\* C7 witness: a manual segment with data and without any speech sample is with the
\* service
C7_Witness ==
    /\ ~settings.handsFreeMode
    /\ inflight # <<>> /\ ~inflight[1].spoke /\ inflight[1].size > 0

\* C8: when a service call settles, a record reaches the completion callback exactly
\* when the call resolved and its text, with the white space at both ends removed, is
\* neither empty nor "SILENCE"; the record carries that text.  When the call resolved
\* with a text that trims to the empty string or to "SILENCE", nothing reaches the
\* callback, errorMsg keeps its value and the engine is left as a resolved call with
\* the empty string leaves it.
C8_RecordIffRealText ==
    [][ lastReturn' # NoOutcome =>
          LET resolved == lastReturn'.status = "resolved"
              trimmed == IF resolved THEN Trim(lastReturn'.result.text) ELSE <<>>
              real == resolved /\ trimmed # <<>> /\ trimmed # SILENCE
          IN /\ (history' # history) <=> real
             /\ real => (/\ Head(history').originalText = trimmed
                         /\ activeRecord' = Head(history')
                         /\ Tail(history') = history)
             /\ ~real => UNCHANGED appVars
             /\ (resolved /\ ~real) =>
                   /\ errorMsg' = errorMsg
                   /\ \E k \in DOMAIN inflight :
                         Cur' = onstopResume(Cur, k, EmptyTextOutcome) ]_vars

\* C8 witness: a call has resolved with "SILENCE" between white space, no record
\* exists and no error is shown
C8_Witness ==
    /\ lastReturn # NoOutcome /\ lastReturn.status = "resolved"
    /\ lastReturn.result.text # SILENCE /\ Trim(lastReturn.result.text) = SILENCE
    /\ history = <<>> /\ errorMsg = "null"

\* C9: in manual mode a service call that fails sets the error message, hands no
\* record to the callback and leaves the engine Idle.
C9_ManualFailureSurfacesError ==
    [][ (~settings.handsFreeMode /\ lastReturn' = Failure) =>
          /\ errorMsg' = "Could not process audio."
          /\ UNCHANGED appVars
          /\ ~isRecording' /\ ~isProcessing' ]_vars

\* C9 witness: manual mode, the call has just failed, the message shows and the
\* engine is Idle
C9_Witness ==
    /\ ~settings.handsFreeMode /\ lastReturn = Failure
    /\ errorMsg = "Could not process audio." /\ Idle /\ history = <<>>

EncoderStarts ==
    /\ mediaRecorderRef' = "recording"
    /\ \/ mediaRecorderRef # "recording"
       \/ pendingAcq' < pendingAcq /\ lastEvent' # "acquireFailed"

\* C11: every acquired stream with live tracks is the one streamRef holds, so at most
\* one microphone stream is live: no start action leaves a live stream that no ref
\* holds, also when a start is clicked while an acquisition is pending.
C11_AtMostOneLiveSession == leakedStreams = 0

\* C12: while a stop request waits for its stop handler, or the stop handler waits
\* for the service call, no step starts an encoder, whether on a click or on the
\* restart timeout.
C12_NoStartBeforeHandlerEnd ==
    [][ EncoderStarts => (stopEvents = <<>> /\ inflight = <<>>) ]_vars

\* C13: a service call that was pending when shutdownAudio ran changes neither the
\* history nor the active record nor the view when it settles.
C13_NoRecordAfterTeardown ==
    [][ callsAtTeardown' < callsAtTeardown => UNCHANGED appVars ]_vars

\* C14: in every state of the engine shutdownAudio leaves no microphone stream live
\* (the stream of streamRef is stopped or was never acquired, and no other acquired
\* stream is live), the audio context not running and the encoder not recording,
\* and running it a second time changes nothing.
C14_TeardownIdempotentAndComplete ==
    \A d \in DataSizes, d2 \in DataSizes :
        LET s == shutdownAudio(Cur, d)
        IN /\ s.stream # "active" /\ s.leaked = 0
           /\ s.ctx # "running"
           /\ s.rec # "recording"
           /\ shutdownAudio(s, d2) = s

\* C15: when the stop handler of a segment the user stopped has ended and the engine
\* is Idle, the session is torn down: the tracks of the stream are stopped and the
\* audio context is closed.
C15_ManualStopTearsDownSession ==
    (HandlerEnded /\ lastEnded.cause = "user" /\ Idle)
        => (streamRef # "active" /\ audioContextRef # "running")

C17_FailedAcquisitionAborts ==
    [][ lastEvent' = "acquireFailed" =>
          /\ errorMsg' = "Microphone access failed."
          /\ pendingAcq' = pendingAcq - 1
          /\ isRecording' = isRecording /\ isProcessing' = isProcessing
          /\ UNCHANGED <<streamRef, audioContextRef, analyserRef, mediaRecorderRef,
                         loops, timers, stopEvents, inflight>> ]_vars

\* C17 witness: the only acquisition has just failed; the engine is Idle without a
\* session and the message shows
C17_Witness ==
    /\ lastEvent = "acquireFailed" /\ pendingAcq = 0 /\ Idle
    /\ streamRef = "null" /\ mediaRecorderRef = "null"
    /\ errorMsg = "Microphone access failed."

\* C24: while the encoder records a segment, hasSpokenSinceStart never goes from
\* true to false; it is reset only by a start that finds the previous segment
\* stopped.
C24_SpokenFlagMonotonic ==
    [][ (hasSpokenSinceStartRef /\ ~hasSpokenSinceStartRef')
            => mediaRecorderRef # "recording" ]_vars

\* C27: at most one chain of updateLoop animation frames is scheduled at any time.
C27_AtMostOnePollingTask == loops <= 1

\* C29: in hands-free mode, whenever the engine is Recording and a polling tick is
\* scheduled, the recording flag the tick will read is the engine's recording state,
\* so that the tick evaluates the timeout guards.
C29_TickReadsCurrentRecordingFlag ==
    (settings.handsFreeMode /\ isRecording /\ loops > 0)
        => LoopIsRecording(Cur, capIsRecording) = isRecording

C31_UserStopReachesIdle ==
    /\ [][ (manualStopRef /\ isRecording) => ~EncoderStarts ]_vars
    /\ (manualStopRef /\ isRecording) ~> Idle

HandlerTakes == stopEvents # <<>> /\ stopEvents' = Tail(stopEvents)

\* C34: the stop handler of a segment takes it off the queue, leaves the chunk buffer
\* empty and hands at most one utterance to processAudio, made of the data of that
\* segment alone; nothing else starts a service call; a service call that settles
\* is gone and adds at most one record.
C34_SegmentConsumedOnce ==
    [][ /\ HandlerTakes =>
              /\ chunksRef' = 0
              /\ history' = history
              /\ \/ inflight' = inflight
                 \/ inflight' = Append(inflight, Head(stopEvents))
        /\ Len(inflight') > Len(inflight) => HandlerTakes
        /\ Len(inflight') < Len(inflight) =>
              /\ \E i \in DOMAIN inflight : inflight' = Without(inflight, i)
              /\ stopEvents' = stopEvents \/ ~mounted'
              /\ history' = history \/ Tail(history') = history
        /\ history' # history => Len(inflight') < Len(inflight) ]_vars

\* C34 witness: a first segment has gone through the service and left its record,
\* and the utterance of a second segment, with its own data only, is with the
\* service while the buffer is empty
C34_Witness ==
    /\ Len(history) = 1
    /\ Len(inflight) = 1
    /\ inflight[1].size = 1
    /\ stopEvents = <<>>
    /\ chunksRef = 0

\* C35: once shutdownAudio has run on unmount, no step starts an encoder and no
\* animation frame of updateLoop is scheduled.
C35_NoActivityAfterTeardown ==
    [][ ~mounted' => (~EncoderStarts /\ loops' = 0) ]_vars

\* initAudio returned true in this step: at once on a click on start, because the
\* stream of streamRef is active (Console.tsx:58), or when getUserMedia resolved and
\* the rest of the try ran (line 142)
InitAudioSucceeds ==
    \/ clicks' > clicks /\ ~isRecording /\ streamRef = "active"
    \/ pendingAcq' < pendingAcq /\ lastEvent' # "acquireFailed"

\* C36: a step in which initAudio reports success ends with the stream, the analyser
\* and the encoder set, the encoder recording and the UI showing Recording.
C36_InitSuccessMeansSession ==
    [][ InitAudioSucceeds =>
          /\ streamRef' = "active"
          /\ analyserRef'
          /\ mediaRecorderRef' = "recording"
          /\ isRecording' ]_vars

\* The UI shows Recording and nothing is pending: no stop event waits for its
\* handler, no service call is out and no restart timeout is set
ShowsRecordingAtRest ==
    /\ isRecording /\ ~isProcessing
    /\ stopEvents = <<>> /\ inflight = <<>> /\ timers = <<>>

\* C37: whenever the UI shows Recording and no stop handler, service call or restart
\* timeout is pending, the encoder is recording, also after an encoder start failed.
C37_RecordingMeansEncoderRecords ==
    ShowsRecordingAtRest => mediaRecorderRef = "recording"

\* C39: any two records of the history have different ids.
C39_RecordIdsAreFresh ==
    \A i, j \in DOMAIN history : i # j => history[i].id # history[j].id

----------------------------------------------------------------------------
(* Settings as a snapshot, checked under SettingsSpec *)

----------------------------------------------------------------------------
(* The timeout policy of updateLoop, checked under LoopSpec *)

\* The step queued a stop event
StopRequested == Len(stopEvents') > Len(stopEvents)

\* What requested the stop a step has queued
RequestedBy == stopEvents'[Len(stopEvents')].cause

C28_TimeoutOnlyWhenGuardHolds ==
    [][ /\ (StopRequested /\ RequestedBy = "postSpeech") =>
               /\ settings.handsFreeMode
               /\ hasSpokenSinceStartRef'
               /\ now' - lastSpeechTimestampRef' > SILENCE_THRESHOLD_MS
        /\ (StopRequested /\ RequestedBy = "initialSilence") =>
               /\ settings.handsFreeMode
               /\ ~hasSpokenSinceStartRef /\ ~hasSpokenSinceStartRef'
               /\ now' - startTimeRef' > INITIAL_SILENCE_TIMEOUT_MS
        /\ (hasSpokenSinceStartRef' /\ lastSpeechTimestampRef' = now')
               => (~StopRequested /\ mediaRecorderRef' = mediaRecorderRef) ]_vars

\* An animation frame ran updateLoop on a sample of mean magnitude v
TickSample(v) == \E dt \in {0, LoopStep, ClockStep}, d \in DataSizes : Tick(v, dt, d)

\* C38: a tick whose sample has a mean magnitude above SPEECH_THRESHOLD_VOLUME sets
\* lastSpeechTimestamp to now and hasSpokenSinceStart to true; a tick whose sample is
\* at or below the threshold leaves both as they were.
C38_SpeechIffAboveThreshold ==
    [][ \A v \in AvgVols :
          TickSample(v) =>
            IF v > SPEECH_THRESHOLD_VOLUME
            THEN /\ lastSpeechTimestampRef' = now'
                 /\ hasSpokenSinceStartRef'
            ELSE /\ lastSpeechTimestampRef' = lastSpeechTimestampRef
                 /\ hasSpokenSinceStartRef' = hasSpokenSinceStartRef ]_vars

\* C38 witness: a sample classified as speech after the start, and later frames with
\* samples at or below the threshold left the time stamp where it was
C38_Witness ==
    /\ hasSpokenSinceStartRef
    /\ lastSpeechTimestampRef > 0
    /\ now > lastSpeechTimestampRef
    /\ mediaRecorderRef = "recording"

\* C32: in manual mode no animation frame stops the encoder, queues a stop event or
\* sets the manual-stop flag, whatever the sample and however long the segment and
\* the silence have lasted.
C32_ManualTickNeverStops ==
    [][ ((\E v \in AvgVols : TickSample(v)) /\ ~settings.handsFreeMode) =>
          /\ mediaRecorderRef' = mediaRecorderRef
          /\ stopEvents' = stopEvents
          /\ manualStopRef' = manualStopRef ]_vars

\* C32 witness: a manual segment whose frames read isRecording as true has outlasted
\* both timeouts, with speech long ago, and the encoder still records
C32_Witness ==
    /\ ~settings.handsFreeMode
    /\ capIsRecording
    /\ hasSpokenSinceStartRef
    /\ now - lastSpeechTimestampRef > SILENCE_THRESHOLD_MS
    /\ now - startTimeRef > INITIAL_SILENCE_TIMEOUT_MS
    /\ mediaRecorderRef = "recording"
    /\ ~manualStopRef
    /\ stopEvents = <<>>

\* C28 witness: a tick has ended a hands-free segment with speech by the post-speech
\* timeout, the silence being longer than the threshold
C28_Witness ==
    /\ settings.handsFreeMode /\ capIsRecording
    /\ stopEvents # <<>> /\ stopEvents[1].cause = "postSpeech" /\ stopEvents[1].spoke
    /\ mediaRecorderRef = "inactive"
    /\ hasSpokenSinceStartRef
    /\ now - lastSpeechTimestampRef > SILENCE_THRESHOLD_MS

----------------------------------------------------------------------------
(* Clipboard delivery claims, checked under CopySpec *)

Tried(k) == \E n \in 1..Len(copyAttempted) : copyAttempted[n] = k

Succeeds(k) == IF k = 1 THEN tierOutcomes[1] = "resolves" ELSE tierOutcomes[k] = "true"

\* C18: secureCopy tries its tiers in the order 1, 2, 3.  Tier 1 is tried when the
\* clipboard API is there; tier k+1 is tried if and only if no earlier tier succeeded
\* (each was unavailable, threw or reported failure), so nothing is tried after the
\* first success.  false is returned only after tier 3 was tried and did not
\* succeed, and true exactly when a tried tier succeeded.
C18_TiersInOrder ==
    copyCalls > 0 =>
        /\ \A m \in 1..Len(copyAttempted), n \in 1..Len(copyAttempted) :
               m < n => copyAttempted[m] < copyAttempted[n]
        /\ Tried(1) <=> tierOutcomes[1] # "unavailable"
        /\ Tried(2) <=> ~Succeeds(1)
        /\ Tried(3) <=> (~Succeeds(1) /\ ~Succeeds(2))
        /\ copyResult = "false" => (Tried(3) /\ ~Succeeds(3))
        /\ copyResult = "true" <=> \E k \in 1..3 : Tried(k) /\ Succeeds(k)

\* The first two tiers fail in different ways and the third succeeds
C18_Witness ==
    /\ copyCalls > 0
    /\ tierOutcomes[1] = "rejects"
    /\ tierOutcomes[2] = "false"
    /\ tierOutcomes[3] = "true"
    /\ copyAttempted = <<1, 2, 3>>
    /\ copyResult = "true"
    /\ clipboard = copyText

\* C19: whatever the three tiers do (unavailable, throw, reject, return false, return
\* true), a secureCopy call ends with a boolean and never with an exception.
C19_NeverRejects ==
    copyCalls > 0 => (~copyThrew /\ copyResult \in {"true", "false"})

\* Every tier threw, one of them after attaching its helper element
C19_Witness ==
    /\ copyCalls > 0
    /\ tierOutcomes[1] = "throws"
    /\ tierOutcomes[2] = "throwsAfterAppend"
    /\ tierOutcomes[3] = "throwsBeforeAppend"
    /\ copyAttempted = <<1, 2, 3>>
    /\ ~copyThrew
    /\ copyResult = "false"

\* C20: a second secureCopy call with the same text under the same tier outcomes
\* returns the same boolean as the first and leaves the clipboard and the document
\* as the first call left them.
C20_CopyIdempotent ==
    (copyCalls = 2 /\ copyText = firstCopy.text) =>
        /\ copyResult = firstCopy.result
        /\ clipboard = firstCopy.clipboard
        /\ documentBody = firstCopy.body

\* C40: once a secureCopy call has ended, no helper element it created (the textarea
\* of tier 2, the span of tier 3) is attached to the document, whatever the tiers did.
C40_NoHelperElementLeft ==
    copyCalls > 0 => documentBody = <<>>

----------------------------------------------------------------------------
(* Delivery by App, checked under AppSpec *)

\* A then-callback of a secureCopy promise that resolved true ran in this step
SettledTrue ==
    /\ pendingCopies # <<>>
    /\ pendingCopies' = Tail(pendingCopies)
    /\ Head(pendingCopies).success = "true"

\* C21: while the retry affordance shows (copyError is set), the text a manual retry
\* hands to secureCopy is the originalText of the record whose automatic copy failed.
C21_RetryCopiesFailedRecord ==
    copyError # "null" =>
        /\ failedRecord # NoRecord
        /\ activeRecord # NoRecord
        /\ activeRecord.originalText = failedRecord.originalText

\* C22: when a secureCopy promise resolves true, its callback clears copyError, lets
\* no exception out and leaves the clipboard as the copy left it, whether the
\* confirmation sound plays, is unavailable or throws.
C22_SoundNeverChangesOutcome ==
    [][ SettledTrue =>
          /\ copyError' = "null"
          /\ ~thenThrew'
          /\ clipboard' = clipboard
          /\ copyResult' = copyResult ]_vars

\* The sound threw after a successful manual retry of the one record whose automatic
\* copy had failed
C22_Witness ==
    /\ soundOutcome = "throws"
    /\ lastSound = "failed"
    /\ Len(history) = 1
    /\ copyCalls = 2
    /\ firstCopy.result = "false"
    /\ copyResult = "true"
    /\ pendingCopies = <<>>
    /\ copyError = "null"
    /\ ~thenThrew
    /\ clipboard = activeRecord.originalText

\* C23: the record built from a response has the trimmed text of the response as
\* originalText, and its detectedLanguage and its englishTranslation unchanged; it is
\* the record handed to App.
C23_RecordFromResponse ==
    [][ (lastReturn'.status = "resolved" /\ history' # history) =>
          LET r == lastReturn'.result
              rec == Head(history')
          IN /\ rec.originalText = Trim(r.text)
             /\ rec.detectedLanguage = r.detectedLanguage
             /\ rec.translatedText = r.englishTranslation
             /\ activeRecord' = rec ]_vars

\* A padded text, a padded translation and a language other than English
C23_Witness ==
    /\ lastReturn.status = "resolved"
    /\ lastReturn.result.text = <<" ", " ">> \o Hello \o <<" ">>
    /\ lastReturn.result.englishTranslation = <<" ", "H", "i", " ">>
    /\ lastReturn.result.detectedLanguage = "Hindi"
    /\ history # <<>>
    /\ Head(history).originalText = Hello
    /\ Head(history).translatedText = <<" ", "H", "i", " ">>
    /\ Head(history).detectedLanguage = "Hindi"

====
